---- MODULE Spec2Model ----
(***************************************************************************)
(* WhisperMind retrieval pipeline: the chunker and file dispatch of        *)
(* src/src/rag/document_processor.py, the ChromaDB-backed index of         *)
(* src/src/rag/vector_store.py and the retriever of                        *)
(* src/src/rag/retriever.py.                                               *)
(*                                                                         *)
(* Strings are sequences of one-character strings; a Python index is       *)
(* 0-based, a TLA+ index 1-based.  Scores are exact rationals [n, d].      *)
(***************************************************************************)
EXTENDS Integers, Sequences, FiniteSets, TLC

VARIABLES
    \* DocumentProcessor._split_text
    text, chunk_size, chunk_overlap, start, chunks, windows, split_pc, split_result,
    \* DocumentProcessor.process_directory and process_file, and the files they read
    fs, dir_exists, supported_files, file_idx, documents, processed, proc_pc, pf_last,
    \* VectorStore (its ChromaDB collection) and DocumentRetriever
    collection, initialized, rerank, last,
    \* whether clear_collection deleted the collection and did not recreate it
    dropped,
    \* where each concurrent caller of the store is
    pc

splitVars == <<text, start, chunks, windows, split_pc, split_result>>

configVars == <<chunk_size, chunk_overlap>>

procVars == <<fs, dir_exists, supported_files, file_idx, documents, processed,
              proc_pc, pf_last>>

indexVars == <<collection, initialized, rerank, last, dropped, pc>>

vars == <<splitVars, configVars, procVars, indexVars>>

-----------------------------------------------------------------------------
(* Python string primitives *)

Min(a, b) == IF a <= b THEN a ELSE b

Max(a, b) == IF a >= b THEN a ELSE b

\* slice index normalisation of s[a:b] on a sequence of length n
NormIdx(i, n) == IF i < 0 THEN Max(0, i + n) ELSE Min(i, n)

\* s[a:b]
Slice(s, a, b) ==
    LET lo == NormIdx(a, Len(s))
        hi == NormIdx(b, Len(s))
    IN  IF lo < hi THEN SubSeq(s, lo + 1, hi) ELSE <<>>

\* s[a:]
SliceFrom(s, a) ==
    LET lo == NormIdx(a, Len(s))
    IN  IF lo < Len(s) THEN SubSeq(s, lo + 1, Len(s)) ELSE <<>>

\* the 0-based positions of s that s[a:b] covers
SlicePositions(s, a, b) ==
    LET lo == NormIdx(a, Len(s))
        hi == NormIdx(b, Len(s))
    IN  {i \in 0..(Len(s) - 1) : lo <= i /\ i < hi}

\* whether sub occurs in s at 0-based index i
OccursAt(s, sub, i) ==
    /\ i >= 0
    /\ i + Len(sub) <= Len(s)
    /\ SubSeq(s, i + 1, i + Len(sub)) = sub

\* s.rfind(sub): the highest index of an occurrence, -1 when there is none
RFind(s, sub) ==
    LET hits == {i \in 0..Len(s) : OccursAt(s, sub, i)}
    IN  IF hits = {} THEN -1 ELSE CHOOSE i \in hits : \A j \in hits : j <= i

Whitespace == {" ", "\n", "\t"}

\* s.strip()
Strip(s) ==
    LET keep == {i \in 1..Len(s) : s[i] \notin Whitespace}
    IN  IF keep = {} THEN <<>>
        ELSE LET lo == CHOOSE i \in keep : \A j \in keep : i <= j
                 hi == CHOOSE i \in keep : \A j \in keep : j <= i
             IN  SubSeq(s, lo, hi)

RECURSIVE Concat(_)
\* "".join(parts)
Concat(parts) ==
    IF parts = <<>> THEN <<>> ELSE Head(parts) \o Concat(Tail(parts))

RECURSIVE SeqsUpTo(_, _)
\* the sequences over S of length at most n
SeqsUpTo(S, n) ==
    IF n = 0 THEN {<<>>}
    ELSE LET shorter == SeqsUpTo(S, n - 1)
         IN  shorter \cup {Append(s, x) : s \in shorter, x \in S}

-----------------------------------------------------------------------------
(* DocumentProcessor._split_text *)

\* the texts are built of at most MaxTokens tokens
MaxTokens == 4

\* a loop that does not end is cut after MaxChunks windows
MaxChunks == 5

Tokens == { <<"a">>, <<"a", "a", "a", "a">>, <<".", " ">>, <<".", "\n">>, <<" ">> }

Texts == {Concat(ts) : ts \in SeqsUpTo(Tokens, MaxTokens)}

ChunkSizes == {3, 8, 9}

Delimiters == << <<".", " ">>, <<".", "\n">>, <<"!", "\n">>, <<"?", "\n">> >>

\* the end of a window that is not the last one: the raw boundary, moved to just
\* after the first delimiter of the list whose last occurrence lies beyond half
\* the chunk size
WindowEnd(t, st, size) ==
    LET chunk_text == Slice(t, st, st + size)
        good == {k \in 1..Len(Delimiters) :
                    2 * RFind(chunk_text, Delimiters[k]) > size}
    IN  IF good = {} THEN st + size
        ELSE LET k == CHOOSE k \in good : \A j \in good : k <= j
             IN  st + RFind(chunk_text, Delimiters[k]) + Len(Delimiters[k])

\* a next window start that leaves no overlap
NextStartAtEnd(end, overlap) == end

\* the next window start
NextStart(end, overlap) == end - overlap

RECURSIVE StripChunks(_)
\* [chunk.strip() for chunk in chunks if chunk.strip()]
StripChunks(cs) ==
    IF cs = <<>> THEN <<>>
    ELSE IF Strip(Head(cs)) = <<>> THEN StripChunks(Tail(cs))
         ELSE <<Strip(Head(cs))>> \o StripChunks(Tail(cs))

\* the result of the branch for a text that fits one chunk
ShortResult(t) == <<t>>

\* no vector store is open
IndexIdle ==
    /\ collection = <<>>
    /\ initialized = FALSE
    /\ rerank = FALSE
    /\ last = <<>>
    /\ dropped = FALSE
    /\ pc = <<>>

\* no call of process_directory or process_file is under way
ProcIdle ==
    /\ fs = <<>>
    /\ dir_exists = FALSE
    /\ supported_files = <<>>
    /\ file_idx = 0
    /\ documents = <<>>
    /\ processed = <<>>
    /\ proc_pc = "off"
    /\ pf_last = <<>>

SplitInit ==
    /\ ProcIdle
    /\ IndexIdle
    /\ text \in Texts
    /\ chunk_size \in ChunkSizes
    /\ chunk_overlap \in 0..(chunk_size - 1)
    /\ start = 0
    /\ chunks = <<>>
    /\ windows = <<>>
    /\ split_pc = "entry"
    /\ split_result = <<>>

\* len(text) <= chunk_size: return [text]
SplitShort ==
    /\ split_pc = "entry"
    /\ Len(text) <= chunk_size
    /\ split_result' = ShortResult(text)
    /\ split_pc' = "done"
    /\ UNCHANGED <<text, start, chunks, windows, configVars, procVars, indexVars>>

\* chunks = []; start = 0
SplitEnter ==
    /\ split_pc = "entry"
    /\ Len(text) > chunk_size
    /\ chunks' = <<>>
    /\ start' = 0
    /\ split_pc' = "loop"
    /\ UNCHANGED <<text, windows, split_result, configVars, procVars, indexVars>>

\* one iteration that appends a window and moves start
SplitWindow ==
    /\ split_pc = "loop"
    /\ Len(chunks) < MaxChunks
    /\ start < Len(text)
    /\ start + chunk_size < Len(text)
    /\ LET end == WindowEnd(text, start, chunk_size)
       IN  /\ chunks' = Append(chunks, Slice(text, start, end))
           /\ windows' = Append(windows, [s |-> start, e |-> end])
           /\ start' = NextStart(end, chunk_overlap)
    /\ UNCHANGED <<text, split_pc, split_result, configVars, procVars, indexVars>>

\* the iteration that appends the last chunk and breaks
SplitLast ==
    /\ split_pc = "loop"
    /\ Len(chunks) < MaxChunks
    /\ start < Len(text)
    /\ start + chunk_size >= Len(text)
    /\ chunks' = Append(chunks, SliceFrom(text, start))
    /\ windows' = Append(windows, [s |-> start, e |-> Len(text)])
    /\ split_pc' = "ret"
    /\ UNCHANGED <<text, start, split_result, configVars, procVars, indexVars>>

\* return [chunk.strip() for chunk in chunks if chunk.strip()]
SplitReturn ==
    /\ \/ split_pc = "ret"
       \/ split_pc = "loop" /\ start >= Len(text)
    /\ split_result' = StripChunks(chunks)
    /\ split_pc' = "done"
    /\ UNCHANGED <<text, start, chunks, windows, configVars, procVars, indexVars>>

SplitNext ==
    \/ SplitShort
    \/ SplitEnter
    \/ SplitWindow
    \/ SplitLast
    \/ SplitReturn

SplitSpec == SplitInit /\ [][SplitNext]_vars

-----------------------------------------------------------------------------
(* DocumentProcessor.process_file and process_directory *)

UpperCase == <<"A", "B", "C", "D", "E", "F", "G", "H", "I", "J", "K", "L", "M",
               "N", "O", "P", "Q", "R", "S", "T", "U", "V", "W", "X", "Y", "Z">>

LowerCase == <<"a", "b", "c", "d", "e", "f", "g", "h", "i", "j", "k", "l", "m",
               "n", "o", "p", "q", "r", "s", "t", "u", "v", "w", "x", "y", "z">>

LowerChar(c) ==
    IF \E i \in 1..Len(UpperCase) : UpperCase[i] = c
    THEN LowerCase[CHOOSE i \in 1..Len(UpperCase) : UpperCase[i] = c]
    ELSE c

\* s.lower()
Lower(s) == [i \in 1..Len(s) |-> LowerChar(s[i])]

\* SUPPORTED_EXTENSIONS, in the order of the dict
SUPPORTED_EXTENSIONS ==
    << [ext |-> <<".", "t", "x", "t">>,      type |-> "text"],
       [ext |-> <<".", "m", "d">>,           type |-> "markdown"],
       [ext |-> <<".", "p", "d", "f">>,      type |-> "pdf"],
       [ext |-> <<".", "d", "o", "c", "x">>, type |-> "docx"],
       [ext |-> <<".", "h", "t", "m", "l">>, type |-> "html"],
       [ext |-> <<".", "h", "t", "m">>,      type |-> "html"] >>

SupportedExts == {SUPPORTED_EXTENSIONS[i].ext : i \in 1..Len(SUPPORTED_EXTENSIONS)}

TypeOfExt(ext) ==
    SUPPORTED_EXTENSIONS[CHOOSE i \in 1..Len(SUPPORTED_EXTENSIONS) :
                            SUPPORTED_EXTENSIONS[i].ext = ext].type

\* the extractor process_file dispatches to
ExtractorOfExt(ext) ==
    CASE ext = <<".", "t", "x", "t">>      -> "_read_text_file"
      [] ext = <<".", "m", "d">>           -> "_read_markdown_file"
      [] ext = <<".", "p", "d", "f">>      -> "_read_pdf_file"
      [] ext = <<".", "d", "o", "c", "x">> -> "_read_docx_file"
      [] OTHER                             -> "_read_html_file"

\* the files of the model: a path is its stem and its suffix
Paths ==
    { [stem |-> "a", suffix |-> <<".", "t", "x", "t">>],
      [stem |-> "b", suffix |-> <<".", "m", "d">>],
      [stem |-> "c", suffix |-> <<".", "p", "d", "f">>],
      [stem |-> "d", suffix |-> <<".", "T", "X", "T">>],
      [stem |-> "e", suffix |-> <<".", "e", "x", "e">>] }

\* path.name
PathName(p) == <<p.stem>> \o p.suffix

\* the text the extractor of a file returns when it does not raise
FileText(p) ==
    CASE p.stem = "a" -> <<"a", "b", ".", " ", "c", "d", " ", "e", "f">>
      [] p.stem = "b" -> <<" ", "x", "y">>
      [] p.stem = "c" -> <<" ", "\n">>
      [] p.stem = "d" -> <<"u", "v", "w", "x", "y", "z">>
      [] OTHER        -> <<"q">>

\* st_mtime of a file, in units of 10^9 seconds
FileModified(p) == IF p.stem = "a" THEN 1 ELSE 2

\* the chunk size and overlap of the processor that reads the files
ProcChunkSize == 4

ProcChunkOverlap == 1

\* hashlib.md5(f"{file_path}_{chunk_index}"): one id per (path, index)
GenerateDocId(p, i) == <<p, i>>

RECURSIVE SplitLoop(_, _, _, _, _)
\* the while loop of _split_text from window start st on, acc the chunks so far
SplitLoop(t, size, overlap, st, acc) ==
    IF st >= Len(t) \/ Len(acc) >= MaxChunks THEN acc
    ELSE IF st + size >= Len(t) THEN Append(acc, SliceFrom(t, st))
    ELSE LET end == WindowEnd(t, st, size)
         IN  SplitLoop(t, size, overlap, NextStart(end, overlap),
                       Append(acc, Slice(t, st, end)))

\* _split_text(text)
SplitText(t, size, overlap) ==
    IF Len(t) <= size THEN ShortResult(t)
    ELSE StripChunks(SplitLoop(t, size, overlap, 0, <<>>))

\* the Document list process_file builds of the chunks of a file
ChunkDocuments(p, extension, cks) ==
    [i \in 1..Len(cks) |->
        [content  |-> cks[i],
         metadata |-> [source      |-> PathName(p),
                       filename    |-> PathName(p),
                       extension   |-> extension,
                       size        |-> Len(FileText(p)),
                       modified    |-> FileModified(p),
                       type        |-> TypeOfExt(extension),
                       chunk_index |-> i - 1,
                       chunk_count |-> Len(cks)],
         doc_id   |-> GenerateDocId(p, i - 1)]]

\* what process_file does once the path is known to name a supported file
ExtractAndChunk(fsys, p, extension, size, overlap) ==
    IF ~fsys[p].readable
    THEN [status |-> "Exception", docs |-> <<>>,
          extractor |-> ExtractorOfExt(extension)]
    ELSE IF Strip(FileText(p)) = <<>>
         THEN [status |-> "ok", docs |-> <<>>,
               extractor |-> ExtractorOfExt(extension)]
         ELSE [status |-> "ok",
               docs |-> ChunkDocuments(p, extension,
                                       SplitText(FileText(p), size, overlap)),
               extractor |-> ExtractorOfExt(extension)]

\* process_file with the extension looked at before the existence of the path
ProcessFileExtensionFirst(fsys, p, size, overlap) ==
    LET extension == Lower(p.suffix)
    IN  IF extension \notin SupportedExts
        THEN [status |-> "ValueError", docs |-> <<>>, extractor |-> "none"]
        ELSE IF ~fsys[p].exists
             THEN [status |-> "FileNotFoundError", docs |-> <<>>,
                   extractor |-> "none"]
             ELSE ExtractAndChunk(fsys, p, extension, size, overlap)

\* process_file(file_path): the exception it raises or the documents it returns
ProcessFile(fsys, p, size, overlap) ==
    LET extension == Lower(p.suffix)
    IN  IF ~fsys[p].exists
        THEN [status |-> "FileNotFoundError", docs |-> <<>>, extractor |-> "none"]
        ELSE IF extension \notin SupportedExts
             THEN [status |-> "ValueError", docs |-> <<>>, extractor |-> "none"]
             ELSE ExtractAndChunk(fsys, p, extension, size, overlap)

\* the record of one call of process_file
CallRecord(fsys, p, r) ==
    [path |-> p, existed |-> fsys[p].exists, status |-> r.status,
     docs |-> r.docs, extractor |-> r.extractor]

RECURSIVE SetToSeq(_)
SetToSeq(S) ==
    IF S = {} THEN <<>>
    ELSE LET x == CHOOSE x \in S : TRUE IN <<x>> \o SetToSeq(S \ {x})

RECURSIVE GlobFrom(_, _)
\* for ext in SUPPORTED_EXTENSIONS: supported_files.extend(rglob("*" + ext))
GlobFrom(fsys, k) ==
    IF k > Len(SUPPORTED_EXTENSIONS) THEN <<>>
    ELSE SetToSeq({p \in Paths : fsys[p].exists
                                 /\ p.suffix = SUPPORTED_EXTENSIONS[k].ext})
         \o GlobFrom(fsys, k + 1)

\* a loop without the try: the exception of process_file leaves process_directory
AbortOnFileError == "raised"

\* where process_directory goes on after process_file raised: the except clause
\* logs the error and the loop takes the next file
AfterFileError == "loop"

SplitIdle ==
    /\ text = <<>>
    /\ start = 0
    /\ chunks = <<>>
    /\ windows = <<>>
    /\ split_pc = "off"
    /\ split_result = <<>>

ProcInit ==
    /\ SplitIdle
    /\ IndexIdle
    /\ chunk_size = ProcChunkSize
    /\ chunk_overlap = ProcChunkOverlap
    /\ fs \in [Paths -> [exists : BOOLEAN, readable : BOOLEAN]]
    /\ dir_exists \in BOOLEAN
    /\ supported_files = <<>>
    /\ file_idx = 0
    /\ documents = <<>>
    /\ processed = <<>>
    /\ proc_pc = "idle"
    /\ pf_last = [status |-> "none"]

\* a caller calls process_file(p)
ProcessFileCall ==
    /\ proc_pc = "idle"
    /\ \E p \in Paths :
          pf_last' = CallRecord(fs, p, ProcessFile(fs, p, chunk_size, chunk_overlap))
    /\ UNCHANGED <<fs, dir_exists, supported_files, file_idx, documents, processed,
                   proc_pc, splitVars, configVars, indexVars>>

\* process_directory up to its loop
ProcessDirectoryEnter ==
    /\ proc_pc = "idle"
    /\ documents' = <<>>
    /\ IF ~dir_exists
       THEN /\ proc_pc' = "done"
            /\ UNCHANGED supported_files
       ELSE /\ supported_files' = GlobFrom(fs, 1)
            /\ proc_pc' = "loop"
    /\ file_idx' = 0
    /\ UNCHANGED <<fs, dir_exists, processed, pf_last, splitVars, configVars, indexVars>>

\* one iteration of the loop over supported_files
ProcessDirectoryFile ==
    /\ proc_pc = "loop"
    /\ file_idx < Len(supported_files)
    /\ LET p == supported_files[file_idx + 1]
           r == ProcessFile(fs, p, chunk_size, chunk_overlap)
       IN  /\ pf_last' = CallRecord(fs, p, r)
           /\ processed' = Append(processed, CallRecord(fs, p, r))
           /\ IF r.status = "ok"
              THEN /\ documents' = documents \o r.docs
                   /\ proc_pc' = "loop"
              ELSE /\ documents' = documents
                   /\ proc_pc' = AfterFileError
    /\ file_idx' = file_idx + 1
    /\ UNCHANGED <<fs, dir_exists, supported_files, splitVars, configVars, indexVars>>

\* return documents
ProcessDirectoryReturn ==
    /\ proc_pc = "loop"
    /\ file_idx >= Len(supported_files)
    /\ proc_pc' = "done"
    /\ UNCHANGED <<fs, dir_exists, supported_files, file_idx, documents, processed,
                   pf_last, splitVars, configVars, indexVars>>

\* a file is deleted while the directory is being processed
RemoveFile ==
    /\ proc_pc = "loop"
    /\ \E p \in Paths :
          /\ fs[p].exists
          /\ fs' = [fs EXCEPT ![p].exists = FALSE]
    /\ UNCHANGED <<dir_exists, supported_files, file_idx, documents, processed,
                   proc_pc, pf_last, splitVars, configVars, indexVars>>

ProcNext ==
    \/ ProcessFileCall
    \/ ProcessDirectoryEnter
    \/ ProcessDirectoryFile
    \/ ProcessDirectoryReturn
    \/ RemoveFile

ProcSpec == ProcInit /\ [][ProcNext]_vars

-----------------------------------------------------------------------------
(* Exact scores: the floats of the code as reduced fractions [n, d], d > 0 *)

RECURSIVE Gcd(_, _)
Gcd(a, b) == IF b = 0 THEN a ELSE Gcd(b, a % b)

Rat(n, d) ==
    LET g == Gcd(IF n < 0 THEN -n ELSE n, d)
    IN  [n |-> n \div g, d |-> d \div g]

RAdd(a, b) == Rat(a.n * b.d + b.n * a.d, a.d * b.d)

RMul(a, b) == Rat(a.n * b.n, a.d * b.d)

RLeq(a, b) == a.n * b.d <= b.n * a.d

RLess(a, b) == a.n * b.d < b.n * a.d

RMin(a, b) == IF RLeq(a, b) THEN a ELSE b

-----------------------------------------------------------------------------
(* VectorStore: embeddings and the ChromaDB collection *)

\* the documents callers add and the queries they ask
ContentMl == <<"m", "l", " ", "i", "s", " ", "a", "i">>

ContentWeb == <<"h", "t", "m", "l", " ", "w", "e", "b">>

ContentLong == <<"a", "i", " ">> \o [i \in 1..117 |-> "z"]

QueryMl == <<"m", "l", " ", "i", "s", " ", "a", "i">>

QueryWeb == <<"M", "L", " ", "w", "e", "b">>

QueryEmpty == <<>>

Queries == {QueryMl, QueryWeb, QueryEmpty}

NameA == <<"a", ".", "t", "x", "t">>

NameB == <<"b", ".", "m", "d">>

NameC == <<"c", ".", "p", "d", "f">>

DocA ==
    [content |-> ContentMl, doc_id |-> "a0",
     metadata |-> [source |-> NameA, filename |-> NameA, type |-> "text",
                   modified |-> 1]]

\* the chunk of the same file and index after the file was rewritten
DocA2 ==
    [content |-> ContentWeb, doc_id |-> "a0",
     metadata |-> [source |-> NameA, filename |-> NameA, type |-> "text",
                   modified |-> 150]]

\* the text of DocA in another file, with no filename in its metadata
DocB ==
    [content |-> ContentMl, doc_id |-> "b0",
     metadata |-> [source |-> NameB, type |-> "markdown", modified |-> 1]]

\* a long document with no modification time in its metadata
DocC ==
    [content |-> ContentLong, doc_id |-> "c0",
     metadata |-> [source |-> NameC, filename |-> NameC, type |-> "pdf"]]

Pool == {DocA, DocA2, DocB, DocC}

\* add_documents is called with at most MaxBatch documents
MaxBatch == 1

\* top_k ranges over 0..MaxTopK
MaxTopK == 2

TopKs == 0..MaxTopK

Thresholds == {Rat(0, 1), Rat(1, 2), Rat(11, 10)}

\* self.embedding_model.encode(text): one fixed vector per text
Encode(t) ==
    CASE t = ContentMl   -> <<1, 0>>
      [] t = ContentWeb  -> <<2, 1>>
      [] t = ContentLong -> <<1, 1>>
      [] t = QueryWeb    -> <<2, 0>>
      [] t = QueryEmpty  -> <<0, 1>>
      [] OTHER           -> <<2, 2>>

\* the fallback of _generate_embedding: [0.0] * 384
ZeroVector == <<0, 0>>

\* _generate_embedding(text); ok is whether encode returned
GenerateEmbedding(t, ok) == IF ok THEN Encode(t) ELSE ZeroVector

RECURSIVE SquaredDiffs(_, _, _)
SquaredDiffs(u, v, i) ==
    IF i > Len(u) THEN 0
    ELSE (u[i] - v[i]) * (u[i] - v[i]) + SquaredDiffs(u, v, i + 1)

\* the distance of the collection (ChromaDB's default space, squared L2)
Distance(u, v) == SquaredDiffs(u, v, 1)

\* similarity = 1.0 / (1.0 + distance)
Similarity(distance) == Rat(1, 1 + distance)

\* a collection maps the ids it holds to their entries
EmptyCollection == [id \in {} |-> <<>>]

Ids(coll) == DOMAIN coll

Count(coll) == Cardinality(DOMAIN coll)

HasDuplicates(ids) == \E i, j \in 1..Len(ids) : i # j /\ ids[i] = ids[j]

\* collection.add: an id the collection already holds is skipped, the entry
\* stored under it stays
ChromaAdd(coll, ids, embeddings, metadatas, docs) ==
    LET fresh == {i \in 1..Len(ids) : ids[i] \notin DOMAIN coll}
    IN  [id \in (DOMAIN coll) \cup {ids[i] : i \in fresh} |->
            IF id \in DOMAIN coll THEN coll[id]
            ELSE LET i == CHOOSE i \in fresh : ids[i] = id
                 IN  [embedding |-> embeddings[i], document |-> docs[i],
                      metadata |-> metadatas[i]]]

\* collection.delete(ids=doc_ids)
ChromaDelete(coll, ids) == [id \in (DOMAIN coll) \ ids |-> coll[id]]

RECURSIVE Orderings(_)
Orderings(S) ==
    IF S = {} THEN {<<>>}
    ELSE UNION {{<<x>> \o r : r \in Orderings(S \ {x})} : x \in S}

\* a query that gives n entries in no order of distance
ChromaQueryUnordered(coll, qvec, n) ==
    {SubSeq(o, 1, Min(n, Count(coll))) : o \in Orderings(DOMAIN coll)}

\* collection.query(n_results=n): the ids of the n nearest entries by ascending
\* distance; entries at the same distance come in any order
ChromaQuery(coll, qvec, n) ==
    LET k == Min(n, Count(coll))
        sorted == {o \in Orderings(DOMAIN coll) :
                      \A i \in 1..(Len(o) - 1) :
                          Distance(coll[o[i]].embedding, qvec)
                              <= Distance(coll[o[i + 1]].embedding, qvec)}
    IN  {SubSeq(o, 1, k) : o \in sorted}

\* a search that keeps every hit
AlwaysPasses(similarity, threshold) == TRUE

\* similarity >= similarity_threshold
PassesThreshold(similarity, threshold) == RLeq(threshold, similarity)

\* the result list search builds of the hits of one query
SearchResults(coll, qvec, hits, threshold) ==
    LET sim(i) == Similarity(Distance(coll[hits[i]].embedding, qvec))
        keep == SelectSeq([i \in 1..Len(hits) |-> i],
                          LAMBDA i : PassesThreshold(sim(i), threshold))
    IN  [j \in 1..Len(keep) |->
            [content    |-> coll[hits[keep[j]]].document,
             metadata   |-> coll[hits[keep[j]]].metadata,
             similarity |-> sim(keep[j]),
             rank       |-> keep[j]]]

\* what search can return: [] when the query raises (a storage error, or
\* n_results < 1), the filtered hits otherwise
SearchOutcomes(coll, qvec, top_k, threshold, store_ok) ==
    IF ~store_ok \/ top_k < 1 THEN {<<>>}
    ELSE {SearchResults(coll, qvec, hits, threshold) :
             hits \in ChromaQuery(coll, qvec, top_k)}

-----------------------------------------------------------------------------
(* DocumentRetriever *)

\* the divisor of the recency boost, 10^12 seconds, in the unit of the
\* modification times of the model, 10^9 seconds
RecencyDivisor == 1000

\* the remaining budget above which a truncated block is still appended
MinRemainingChars == 100

\* self.top_k and self.similarity_threshold of the retriever
DefaultTopK == 2

DefaultThreshold == Rat(1, 2)

MaxCharsChoices == {30, 55, 130, 4000}

RECURSIVE SplitFrom(_, _, _)
\* the words of s from position i on, cur the word being read
SplitFrom(s, i, cur) ==
    IF i > Len(s) THEN (IF cur = <<>> THEN {} ELSE {cur})
    ELSE IF s[i] \in Whitespace
         THEN (IF cur = <<>> THEN {} ELSE {cur}) \cup SplitFrom(s, i + 1, <<>>)
         ELSE SplitFrom(s, i + 1, Append(cur, s[i]))

\* set(query.lower().split())
QueryTerms(query) == SplitFrom(Lower(query), 1, <<>>)

\* term in doc_text
Contains(s, sub) == \E i \in 0..Len(s) : OccursAt(s, sub, i)

\* term_matches / len(query_terms) if query_terms else 0
TermBoost(query, content) ==
    LET query_terms == QueryTerms(query)
        doc_text == Lower(content)
        term_matches == Cardinality({t \in query_terms : Contains(doc_text, t)})
    IN  IF query_terms = {} THEN Rat(0, 1)
        ELSE Rat(term_matches, Cardinality(query_terms))

\* a recency boost without its cap
RecencyUncapped(metadata) ==
    LET modified_time == IF "modified" \in DOMAIN metadata
                         THEN metadata.modified ELSE 0
    IN  Rat(modified_time, RecencyDivisor)

\* min(0.1, modified_time / 1000000000000)
RecencyBoost(metadata) ==
    LET modified_time == IF "modified" \in DOMAIN metadata
                         THEN metadata.modified ELSE 0
    IN  RMin(Rat(1, 10), Rat(modified_time, RecencyDivisor))

\* doc.similarity + (term_boost * 0.1) + recency_boost
NewScore(query, doc) ==
    RAdd(RAdd(doc.similarity, RMul(TermBoost(query, doc.content), Rat(1, 10))),
         RecencyBoost(doc.metadata))

\* an insertion that puts x before the items of equal score
InsertBeforeEqual(sorted, x) ==
    LET k == Cardinality({i \in 1..Len(sorted) :
                             RLess(x.doc.similarity, sorted[i].doc.similarity)})
    IN  SubSeq(sorted, 1, k) \o <<x>> \o SubSeq(sorted, k + 1, Len(sorted))

\* documents.sort(key=similarity, reverse=True) is stable: x goes after the
\* items whose score is at least its own
InsertByScore(sorted, x) ==
    LET k == Cardinality({i \in 1..Len(sorted) :
                             RLeq(x.doc.similarity, sorted[i].doc.similarity)})
    IN  SubSeq(sorted, 1, k) \o <<x>> \o SubSeq(sorted, k + 1, Len(sorted))

RECURSIVE SortFrom(_, _, _)
SortFrom(items, i, sorted) ==
    IF i > Len(items) THEN sorted
    ELSE SortFrom(items, i + 1, InsertByScore(sorted, items[i]))

\* the ranks left as search numbered them
KeepRanks(docs) == docs

\* for i, doc in enumerate(documents): doc.rank = i + 1
UpdateRanks(docs) == [i \in 1..Len(docs) |-> [docs[i] EXCEPT !.rank = i]]

\* _rerank_documents(query, documents): the re-ranked list, and for each of its
\* places the place the document had in the list given
RerankDocuments(query, docs) ==
    LET scored == [i \in 1..Len(docs) |->
                      [doc |-> [docs[i] EXCEPT !.similarity = NewScore(query, docs[i])],
                       idx |-> i]]
        sorted == SortFrom(scored, 1, <<>>)
    IN  [docs  |-> UpdateRanks([i \in 1..Len(sorted) |-> sorted[i].doc]),
         order |-> [i \in 1..Len(sorted) |-> sorted[i].idx]]

\* retrieved_docs[:top_k]
LimitTo(docs, top_k) == Slice(docs, 0, top_k)

\* a retrieve that cuts to top_k before it re-ranks
RetrieveTruncateFirst(query, top_k, found, do_rerank) ==
    LET cut == LimitTo(found, top_k)
    IN  IF found = <<>>
        THEN [result |-> <<>>, reranked |-> FALSE, ranked |-> <<>>, order |-> <<>>]
        ELSE IF do_rerank /\ Len(found) > 1
             THEN LET rr == RerankDocuments(query, cut)
                  IN  [result |-> rr.docs, reranked |-> TRUE,
                       ranked |-> rr.docs, order |-> rr.order]
             ELSE [result |-> cut, reranked |-> FALSE,
                   ranked |-> found, order |-> [i \in 1..Len(found) |-> i]]

\* retrieve once search has returned found
RetrieveFrom(query, top_k, found, do_rerank) ==
    IF found = <<>>
    THEN [result |-> <<>>, reranked |-> FALSE, ranked |-> <<>>, order |-> <<>>]
    ELSE IF do_rerank /\ Len(found) > 1
         THEN LET rr == RerankDocuments(query, found)
              IN  [result |-> LimitTo(rr.docs, top_k), reranked |-> TRUE,
                   ranked |-> rr.docs, order |-> rr.order]
         ELSE [result |-> LimitTo(found, top_k), reranked |-> FALSE,
               ranked |-> found, order |-> [i \in 1..Len(found) |-> i]]

Digits == <<"1", "2", "3", "4", "5", "6", "7", "8", "9">>

\* f"[Source: {source}]\n{doc.content}\n" for the document at place i (from 1)
DocText(doc, i) ==
    LET source == IF "filename" \in DOMAIN doc.metadata
                  THEN doc.metadata.filename
                  ELSE <<"D", "o", "c", "u", "m", "e", "n", "t", " ">> \o <<Digits[i]>>
    IN  <<"[", "S", "o", "u", "r", "c", "e", ":", " ">> \o source \o <<"]", "\n">> \o doc.content \o <<"\n">>

RECURSIVE ContextPartsSkipping(_, _, _, _, _)
\* a loop that goes on to the next document after a block that did not fit
ContextPartsSkipping(docs, i, total_chars, parts, max_chars) ==
    IF i > Len(docs) THEN parts
    ELSE LET doc_text == DocText(docs[i], i)
         IN  IF total_chars + Len(doc_text) > max_chars
             THEN ContextPartsSkipping(docs, i + 1, total_chars, parts, max_chars)
             ELSE ContextPartsSkipping(docs, i + 1, total_chars + Len(doc_text),
                                       Append(parts, doc_text), max_chars)

RECURSIVE ContextParts(_, _, _, _, _)
\* the loop of get_document_context from the document at place i on
ContextParts(docs, i, total_chars, parts, max_chars) ==
    IF i > Len(docs) THEN parts
    ELSE LET doc_text == DocText(docs[i], i)
         IN  IF total_chars + Len(doc_text) > max_chars
             THEN LET remaining_chars == max_chars - total_chars
                  IN  IF remaining_chars > MinRemainingChars
                      THEN Append(parts, Slice(doc_text, 0, remaining_chars)
                                         \o <<".", ".", ".">>)
                      ELSE parts
             ELSE ContextParts(docs, i + 1, total_chars + Len(doc_text),
                               Append(parts, doc_text), max_chars)

RECURSIVE Join(_, _)
\* sep.join(parts)
Join(sep, parts) ==
    IF parts = <<>> THEN <<>>
    ELSE IF Len(parts) = 1 THEN parts[1]
         ELSE parts[1] \o sep \o Join(sep, Tail(parts))

\* get_document_context once retrieve has returned docs
AssembleContext(docs, max_chars) ==
    IF docs = <<>> THEN <<>>
    ELSE Join(<<"\n", "-", "-", "-", "\n">>, ContextParts(docs, 1, 0, <<>>, max_chars))

-----------------------------------------------------------------------------
(* The filters of retrieve_by_source and retrieve_by_type *)

\* the characters of a document type name
TypeChars(t) ==
    CASE t = "text"     -> <<"t", "e", "x", "t">>
      [] t = "markdown" -> <<"m", "a", "r", "k", "d", "o", "w", "n">>
      [] t = "pdf"      -> <<"p", "d", "f">>
      [] t = "docx"     -> <<"d", "o", "c", "x">>
      [] t = "html"     -> <<"h", "t", "m", "l">>
      [] OTHER          -> <<>>

\* the source patterns and type names callers filter by
SourceFilters == { <<"A", ".", "T">>, <<"m", "d">>, <<>> }

TypeFilters == { <<"P", "D", "F">>, <<"t", "e", "x", "t">>, <<"t", "x", "t">> }

\* a match that compares the pattern and the source as they are written
MatchesSourceExactCase(doc, source_filter) ==
    LET source == IF "source" \in DOMAIN doc.metadata
                  THEN doc.metadata.source ELSE <<>>
    IN  Contains(source, source_filter)

\* source_filter.lower() in doc.metadata.get('source', '').lower()
MatchesSource(doc, source_filter) ==
    LET source == IF "source" \in DOMAIN doc.metadata
                  THEN doc.metadata.source ELSE <<>>
    IN  Contains(Lower(source), Lower(source_filter))

\* doc_type.lower() == doc.metadata.get('type', '').lower()
MatchesType(doc, doc_type) ==
    LET doc_doc_type == IF "type" \in DOMAIN doc.metadata
                        THEN TypeChars(doc.metadata.type) ELSE <<>>
    IN  Lower(doc_type) = Lower(doc_doc_type)

\* the loop of retrieve_by_source over all_docs
FilterBySource(all_docs, source_filter) ==
    SelectSeq(all_docs, LAMBDA doc : MatchesSource(doc, source_filter))

\* the loop of retrieve_by_type over all_docs
FilterByType(all_docs, doc_type) ==
    SelectSeq(all_docs, LAMBDA doc : MatchesType(doc, doc_type))

-----------------------------------------------------------------------------
(* The calls on one VectorStore and the DocumentRetriever that reads it *)

\* whether self.initialize() returns when a call finds the store not initialized
InitOutcomes == IF initialized THEN {TRUE} ELSE BOOLEAN

\* an opening that starts every time from an empty collection
RecreateCollection(coll, is_dropped) == EmptyCollection

\* client.get_or_create_collection(name): the collection of that name with the
\* entries it holds, a new empty one when there is none
GetOrCreateCollection(coll, is_dropped) ==
    IF is_dropped THEN EmptyCollection ELSE coll

\* the collection a call works on once its self.initialize() has returned
Opened ==
    IF initialized THEN collection ELSE GetOrCreateCollection(collection, dropped)

\* whether self.collection is then the handle of a deleted collection
StillDropped == initialized /\ dropped

\* initialize() raised: before or after get_or_create_collection
DroppedAfterRaise == IF dropped THEN BOOLEAN ELSE {FALSE}

\* the store after the initialize() that a call that only reads begins with
AfterInit(init_ok) ==
    /\ initialized' = init_ok
    /\ collection' = IF init_ok THEN Opened ELSE collection
    /\ dropped' \in (IF init_ok THEN {StillDropped} ELSE DroppedAfterRaise)

\* the points at which clear_collection can fail
ClearFailures == {"none", "delete_collection", "create_collection"}

Init ==
    /\ SplitIdle
    /\ ProcIdle
    /\ chunk_size = ProcChunkSize
    /\ chunk_overlap = ProcChunkOverlap
    /\ collection = EmptyCollection
    /\ initialized = FALSE
    /\ rerank \in BOOLEAN
    /\ last = [op |-> "none"]
    /\ dropped = FALSE
    /\ pc = <<>>

\* VectorStore.add_documents(documents)
AddDocuments ==
    /\ last.op = "none"
    /\ \E batch \in SeqsUpTo(Pool, MaxBatch), init_ok \in InitOutcomes,
          store_ok \in BOOLEAN :
       \E embed_ok \in [1..Len(batch) -> BOOLEAN] :
          LET ids == [i \in 1..Len(batch) |-> batch[i].doc_id]
              embeddings == [i \in 1..Len(batch) |->
                                GenerateEmbedding(batch[i].content, embed_ok[i])]
              metadatas == [i \in 1..Len(batch) |-> batch[i].metadata]
              documents_text == [i \in 1..Len(batch) |-> batch[i].content]
              call == [op |-> "add", batch |-> batch, embeddings |-> embeddings,
                       pre |-> Opened]
          IN  /\ initialized' = init_ok
              /\ IF ~init_ok
                 THEN /\ last' = [call EXCEPT !.embeddings = <<>>] @@ [outcome |-> "raised"]
                      /\ collection' = collection
                      /\ dropped' \in DroppedAfterRaise
                 ELSE IF batch = <<>>
                 THEN /\ last' = call @@ [outcome |-> "True"]
                      /\ collection' = Opened
                      /\ dropped' = StillDropped
                 ELSE IF ~store_ok \/ StillDropped \/ HasDuplicates(ids)
                 THEN /\ last' = call @@ [outcome |-> "False"]
                      /\ collection' = Opened
                      /\ dropped' = StillDropped
                 ELSE /\ last' = call @@ [outcome |-> "True"]
                      /\ collection' = ChromaAdd(Opened, ids, embeddings,
                                                 metadatas, documents_text)
                      /\ dropped' = FALSE
    /\ UNCHANGED <<rerank, pc, splitVars, configVars, procVars>>

\* VectorStore.delete_documents(doc_ids)
DeleteDocuments ==
    /\ last.op = "none"
    /\ \E doc_ids \in (SUBSET {d.doc_id : d \in Pool}) \ {{}},
          init_ok \in InitOutcomes, store_ok \in BOOLEAN :
          LET call == [op |-> "delete", doc_ids |-> doc_ids, pre |-> Opened]
          IN  /\ initialized' = init_ok
              /\ IF ~init_ok
                 THEN /\ last' = call @@ [outcome |-> "raised"]
                      /\ collection' = collection
                      /\ dropped' \in DroppedAfterRaise
                 ELSE IF ~store_ok \/ StillDropped
                 THEN /\ last' = call @@ [outcome |-> "False"]
                      /\ collection' = Opened
                      /\ dropped' = StillDropped
                 ELSE /\ last' = call @@ [outcome |-> "True"]
                      /\ collection' = ChromaDelete(Opened, doc_ids)
                      /\ dropped' = FALSE
    /\ UNCHANGED <<rerank, pc, splitVars, configVars, procVars>>

\* VectorStore.clear_collection(): client.delete_collection, then
\* client.create_collection
ClearCollection ==
    /\ last.op = "none"
    /\ \E init_ok \in InitOutcomes, fails \in ClearFailures :
          LET call == [op |-> "clear", pre |-> Opened]
          IN  /\ initialized' = init_ok
              /\ IF ~init_ok
                 THEN /\ last' = call @@ [outcome |-> "raised"]
                      /\ collection' = collection
                      /\ dropped' \in DroppedAfterRaise
                 ELSE IF StillDropped \/ fails = "delete_collection"
                 THEN /\ last' = call @@ [outcome |-> "False"]
                      /\ collection' = Opened
                      /\ dropped' = StillDropped
                 ELSE IF fails = "create_collection"
                 THEN /\ last' = call @@ [outcome |-> "False"]
                      /\ collection' = EmptyCollection
                      /\ dropped' = TRUE
                 ELSE /\ last' = call @@ [outcome |-> "True"]
                      /\ collection' = EmptyCollection
                      /\ dropped' = FALSE
    /\ UNCHANGED <<rerank, pc, splitVars, configVars, procVars>>

\* VectorStore.search(query, top_k, similarity_threshold)
Search ==
    /\ last.op = "none"
    /\ \E query \in Queries, top_k \in TopKs, threshold \in Thresholds,
          init_ok \in InitOutcomes, embed_ok \in BOOLEAN, store_ok \in BOOLEAN :
          LET qvec == GenerateEmbedding(query, embed_ok)
              call == [op |-> "search", query |-> query, qvec |-> qvec,
                       top_k |-> top_k, threshold |-> threshold]
          IN  /\ AfterInit(init_ok)
              /\ IF ~init_ok
                 THEN last' = call @@ [outcome |-> "raised", failed |-> TRUE,
                                       dropped |-> FALSE, result |-> <<>>]
                 ELSE \E res \in SearchOutcomes(Opened, qvec, top_k, threshold,
                                                store_ok /\ ~StillDropped) :
                         last' = call @@ [outcome |-> "returned",
                                          failed |-> (~store_ok \/ StillDropped),
                                          dropped |-> StillDropped,
                                          result |-> res]
    /\ UNCHANGED <<rerank, pc, splitVars, configVars, procVars>>

\* VectorStore.get_document_count()
GetDocumentCount ==
    /\ last.op = "none"
    /\ \E init_ok \in InitOutcomes, store_ok \in BOOLEAN :
          LET call == [op |-> "count", opened |-> ~initialized /\ init_ok]
          IN  /\ AfterInit(init_ok)
              /\ IF ~init_ok
                 THEN last' = call @@ [outcome |-> "raised", failed |-> TRUE,
                                       dropped |-> FALSE, result |-> 0]
                 ELSE IF ~store_ok \/ StillDropped
                 THEN last' = call @@ [outcome |-> "returned", failed |-> TRUE,
                                       dropped |-> StillDropped, result |-> 0]
                 ELSE last' = call @@ [outcome |-> "returned", failed |-> FALSE,
                                       dropped |-> FALSE,
                                       result |-> Count(Opened)]
    /\ UNCHANGED <<rerank, pc, splitVars, configVars, procVars>>

\* what self.vector_store.search gives retrieve: an exception of initialize is
\* caught by the try of retrieve, which then returns []
FoundBy(qvec, top_k, threshold, init_ok, store_ok) ==
    IF ~init_ok THEN {<<>>}
    ELSE SearchOutcomes(Opened, qvec, top_k * 2, threshold,
                        store_ok /\ ~StillDropped)

\* a retrieve that lets the exception of initialize() through
RetrieveOutcomeUncaught(init_ok) == IF init_ok THEN "returned" ELSE "raised"

\* how retrieve ends: its try catches every exception and returns []
RetrieveOutcome(init_ok) == "returned"

\* DocumentRetriever.retrieve(query, top_k=..., similarity_threshold=...)
Retrieve ==
    /\ last.op = "none"
    /\ \E query \in Queries, top_k \in TopKs, threshold \in Thresholds,
          init_ok \in InitOutcomes, embed_ok \in BOOLEAN, store_ok \in BOOLEAN :
          LET qvec == GenerateEmbedding(query, embed_ok) IN
          \E found \in FoundBy(qvec, top_k, threshold, init_ok, store_ok) :
             LET r == RetrieveFrom(query, top_k, found, rerank)
             IN  /\ AfterInit(init_ok)
                 /\ last' = [op |-> "retrieve", query |-> query, qvec |-> qvec,
                             top_k |-> top_k, threshold |-> threshold,
                             failed |-> (~init_ok \/ ~store_ok \/ StillDropped),
                             init_failed |-> ~init_ok,
                             found |-> found, reranked |-> r.reranked,
                             ranked |-> r.ranked, order |-> r.order,
                             result |-> r.result,
                             outcome |-> RetrieveOutcome(init_ok)]
    /\ UNCHANGED <<rerank, pc, splitVars, configVars, procVars>>

\* DocumentRetriever.retrieve_by_source(query, source_filter, top_k=...,
\* similarity_threshold=...)
RetrieveBySource ==
    /\ last.op = "none"
    /\ \E query \in Queries, top_k \in TopKs, threshold \in Thresholds,
          source_filter \in SourceFilters,
          init_ok \in InitOutcomes, embed_ok \in BOOLEAN, store_ok \in BOOLEAN :
          LET qvec == GenerateEmbedding(query, embed_ok) IN
          \E found \in FoundBy(qvec, top_k, threshold, init_ok, store_ok) :
             LET all_docs == RetrieveFrom(query, top_k, found, rerank).result
             IN  /\ AfterInit(init_ok)
                 /\ last' = [op |-> "by_source", query |-> query, qvec |-> qvec,
                             top_k |-> top_k, threshold |-> threshold,
                             filter |-> source_filter,
                             failed |-> (~init_ok \/ ~store_ok \/ StillDropped),
                             found |-> found, all_docs |-> all_docs,
                             result |-> FilterBySource(all_docs, source_filter),
                             outcome |-> "returned"]
    /\ UNCHANGED <<rerank, pc, splitVars, configVars, procVars>>

\* DocumentRetriever.retrieve_by_type(query, doc_type, top_k=...,
\* similarity_threshold=...)
RetrieveByType ==
    /\ last.op = "none"
    /\ \E query \in Queries, top_k \in TopKs, threshold \in Thresholds,
          doc_type \in TypeFilters,
          init_ok \in InitOutcomes, embed_ok \in BOOLEAN, store_ok \in BOOLEAN :
          LET qvec == GenerateEmbedding(query, embed_ok) IN
          \E found \in FoundBy(qvec, top_k, threshold, init_ok, store_ok) :
             LET all_docs == RetrieveFrom(query, top_k, found, rerank).result
             IN  /\ AfterInit(init_ok)
                 /\ last' = [op |-> "by_type", query |-> query, qvec |-> qvec,
                             top_k |-> top_k, threshold |-> threshold,
                             filter |-> doc_type,
                             failed |-> (~init_ok \/ ~store_ok \/ StillDropped),
                             found |-> found, all_docs |-> all_docs,
                             result |-> FilterByType(all_docs, doc_type),
                             outcome |-> "returned"]
    /\ UNCHANGED <<rerank, pc, splitVars, configVars, procVars>>

\* DocumentRetriever.get_document_context(query, max_chars)
GetDocumentContext ==
    /\ last.op = "none"
    /\ \E query \in Queries, max_chars \in MaxCharsChoices,
          init_ok \in InitOutcomes, embed_ok \in BOOLEAN, store_ok \in BOOLEAN :
          LET qvec == GenerateEmbedding(query, embed_ok) IN
          \E found \in FoundBy(qvec, DefaultTopK, DefaultThreshold, init_ok,
                               store_ok) :
             LET docs == RetrieveFrom(query, DefaultTopK, found, rerank).result
             IN  /\ AfterInit(init_ok)
                 /\ last' = [op |-> "context", query |-> query,
                             max_chars |-> max_chars, docs |-> docs,
                             context |-> AssembleContext(docs, max_chars),
                             outcome |-> "returned"]
    /\ UNCHANGED <<rerank, pc, splitVars, configVars, procVars>>

\* DocumentRetriever.get_retrieval_stats(): get_collection_info() and, in it,
\* get_document_count(); an exception of initialize() gives {}
GetRetrievalStats ==
    /\ last.op = "none"
    /\ \E init_ok \in InitOutcomes, store_ok \in BOOLEAN :
          /\ AfterInit(init_ok)
          /\ last' = [op |-> "stats", outcome |-> "returned",
                      empty |-> ~init_ok,
                      total_documents |->
                          IF init_ok /\ store_ok /\ ~StillDropped
                          THEN Count(Opened) ELSE 0]
    /\ UNCHANGED <<rerank, pc, splitVars, configVars, procVars>>

\* WhisperMindChatbot.load_documents(document_path): process_directory gives
\* the documents or raises, add_documents stores them
LoadDocuments ==
    /\ last.op = "none"
    /\ \E documents_found \in SeqsUpTo(Pool, MaxBatch), dir_ok \in BOOLEAN,
          init_ok \in InitOutcomes, store_ok \in BOOLEAN :
       \E embed_ok \in [1..Len(documents_found) -> BOOLEAN] :
          LET ids == [i \in 1..Len(documents_found) |-> documents_found[i].doc_id]
              embeddings == [i \in 1..Len(documents_found) |->
                                GenerateEmbedding(documents_found[i].content,
                                                  embed_ok[i])]
              metadatas == [i \in 1..Len(documents_found) |->
                               documents_found[i].metadata]
              documents_text == [i \in 1..Len(documents_found) |->
                                    documents_found[i].content]
              call == [op |-> "load", batch |-> documents_found,
                       pre |-> collection]
          IN  IF ~dir_ok
              THEN /\ last' = call @@ [outcome |-> "raised", added |-> "not called",
                                       result |-> 0]
                   /\ UNCHANGED <<collection, initialized, dropped>>
              ELSE IF documents_found = <<>>
              THEN /\ last' = call @@ [outcome |-> "returned",
                                       added |-> "not called", result |-> 0]
                   /\ UNCHANGED <<collection, initialized, dropped>>
              ELSE /\ initialized' = init_ok
                   /\ IF ~init_ok
                      THEN /\ last' = call @@ [outcome |-> "raised",
                                               added |-> "raised", result |-> 0]
                           /\ collection' = collection
                           /\ dropped' \in DroppedAfterRaise
                      ELSE IF ~store_ok \/ StillDropped \/ HasDuplicates(ids)
                      THEN /\ last' = call @@ [outcome |-> "returned",
                                               added |-> "False",
                                               result |-> Len(documents_found)]
                           /\ collection' = Opened
                           /\ dropped' = StillDropped
                      ELSE /\ last' = call @@ [outcome |-> "returned",
                                               added |-> "True",
                                               result |-> Len(documents_found)]
                           /\ collection' = ChromaAdd(Opened, ids, embeddings,
                                                      metadatas, documents_text)
                           /\ dropped' = FALSE
    /\ UNCHANGED <<rerank, pc, splitVars, configVars, procVars>>

\* VectorStore.cleanup()
Cleanup ==
    /\ last.op = "none"
    /\ initialized' = FALSE
    /\ last' = [op |-> "cleanup"]
    /\ UNCHANGED <<collection, dropped, rerank, pc, splitVars, configVars, procVars>>

\* the caller has the result of its call and may make the next one
Return ==
    /\ last.op # "none"
    /\ last' = [op |-> "none"]
    /\ UNCHANGED <<collection, initialized, dropped, rerank, pc, splitVars,
                   configVars, procVars>>

Next ==
    \/ Return
    \/ AddDocuments
    \/ DeleteDocuments
    \/ ClearCollection
    \/ Search
    \/ GetDocumentCount
    \/ Retrieve
    \/ RetrieveBySource
    \/ RetrieveByType
    \/ GetDocumentContext
    \/ GetRetrievalStats
    \/ LoadDocuments
    \/ Cleanup

Spec == Init /\ [][Next]_vars

-----------------------------------------------------------------------------
(* Callers of one initialized VectorStore that run at the same time, one per *)
(* session thread.  The methods take no lock: a caller is inside the         *)
(* collection call of its method from the step that invokes it to the step   *)
(* in which the call returns.                                                *)

Callers == {"t1", "t2"}

Idle == [at |-> "idle"]

ConcInit ==
    /\ SplitIdle
    /\ ProcIdle
    /\ chunk_size = ProcChunkSize
    /\ chunk_overlap = ProcChunkOverlap
    /\ collection = EmptyCollection
    /\ initialized = TRUE
    /\ rerank = FALSE
    /\ last = [op |-> "none"]
    /\ dropped = FALSE
    /\ pc = [c \in Callers |-> Idle]

\* add_documents up to its self.collection.add(...)
ConcAddInvoke(c) ==
    /\ pc[c].at = "idle"
    /\ \E batch \in SeqsUpTo(Pool, MaxBatch) \ {<<>>} :
       \E embed_ok \in [1..Len(batch) -> BOOLEAN] :
          pc' = [pc EXCEPT ![c] =
                    [at |-> "add",
                     ids |-> [i \in 1..Len(batch) |-> batch[i].doc_id],
                     embeddings |-> [i \in 1..Len(batch) |->
                                        GenerateEmbedding(batch[i].content, embed_ok[i])],
                     metadatas |-> [i \in 1..Len(batch) |-> batch[i].metadata],
                     documents |-> [i \in 1..Len(batch) |-> batch[i].content]]]
    /\ UNCHANGED <<collection, initialized, rerank, last, dropped, splitVars,
                   configVars, procVars>>

\* self.collection.add(...) takes effect or raises, and add_documents returns
ConcAddReturn(c) ==
    /\ pc[c].at = "add"
    /\ \E store_ok \in BOOLEAN :
          collection' = IF ~store_ok \/ dropped \/ HasDuplicates(pc[c].ids)
                        THEN collection
                        ELSE ChromaAdd(collection, pc[c].ids, pc[c].embeddings,
                                       pc[c].metadatas, pc[c].documents)
    /\ pc' = [pc EXCEPT ![c] = Idle]
    /\ UNCHANGED <<initialized, rerank, last, dropped, splitVars, configVars,
                   procVars>>

\* delete_documents up to its self.collection.delete(ids=doc_ids)
ConcDeleteInvoke(c) ==
    /\ pc[c].at = "idle"
    /\ \E doc_ids \in (SUBSET {d.doc_id : d \in Pool}) \ {{}} :
          pc' = [pc EXCEPT ![c] = [at |-> "delete", doc_ids |-> doc_ids]]
    /\ UNCHANGED <<collection, initialized, rerank, last, dropped, splitVars,
                   configVars, procVars>>

\* self.collection.delete(...) takes effect or raises, and delete_documents
\* returns
ConcDeleteReturn(c) ==
    /\ pc[c].at = "delete"
    /\ \E store_ok \in BOOLEAN :
          collection' = IF ~store_ok \/ dropped THEN collection
                        ELSE ChromaDelete(collection, pc[c].doc_ids)
    /\ pc' = [pc EXCEPT ![c] = Idle]
    /\ UNCHANGED <<initialized, rerank, last, dropped, splitVars, configVars,
                   procVars>>

\* clear_collection up to its self.client.delete_collection(...)
ConcClearInvoke(c) ==
    /\ pc[c].at = "idle"
    /\ pc' = [pc EXCEPT ![c] = [at |-> "delete_collection"]]
    /\ UNCHANGED <<collection, initialized, rerank, last, dropped, splitVars,
                   configVars, procVars>>

\* self.client.delete_collection(...): it raises when no collection of the
\* name is there, and clear_collection returns False
ConcDeleteCollection(c) ==
    /\ pc[c].at = "delete_collection"
    /\ \E store_ok \in BOOLEAN :
          IF ~store_ok \/ dropped
          THEN /\ pc' = [pc EXCEPT ![c] = Idle]
               /\ UNCHANGED <<collection, dropped>>
          ELSE /\ pc' = [pc EXCEPT ![c] = [at |-> "create_collection"]]
               /\ collection' = EmptyCollection
               /\ dropped' = TRUE
    /\ UNCHANGED <<initialized, rerank, last, splitVars, configVars, procVars>>

\* self.client.create_collection(...): it raises when a collection of the name
\* is there again, and clear_collection returns
ConcCreateCollection(c) ==
    /\ pc[c].at = "create_collection"
    /\ \E store_ok \in BOOLEAN :
          dropped' = IF store_ok THEN FALSE ELSE dropped
    /\ pc' = [pc EXCEPT ![c] = Idle]
    /\ UNCHANGED <<collection, initialized, rerank, last, splitVars, configVars,
                   procVars>>

\* cleanup() and the initialize() of the next call: get_or_create_collection
ConcReopen(c) ==
    /\ pc[c].at = "idle"
    /\ \A d \in Callers : pc[d].at = "idle"
    /\ collection' = GetOrCreateCollection(collection, dropped)
    /\ dropped' = FALSE
    /\ UNCHANGED <<initialized, rerank, last, pc, splitVars, configVars,
                   procVars>>

\* get_document_count() by a caller that is in no other call
ConcCount(c) ==
    /\ pc[c].at = "idle"
    /\ last' = [op |-> "count", caller |-> c, dropped |-> dropped,
                result |-> IF dropped THEN 0 ELSE Count(collection)]
    /\ UNCHANGED <<collection, initialized, rerank, dropped, pc, splitVars,
                   configVars, procVars>>

ConcNext ==
    \E c \in Callers :
        \/ ConcAddInvoke(c)
        \/ ConcAddReturn(c)
        \/ ConcDeleteInvoke(c)
        \/ ConcDeleteReturn(c)
        \/ ConcClearInvoke(c)
        \/ ConcDeleteCollection(c)
        \/ ConcCreateCollection(c)
        \/ ConcReopen(c)
        \/ ConcCount(c)

ConcSpec == ConcInit /\ [][ConcNext]_vars

-----------------------------------------------------------------------------
(* Properties of the chunker *)

\* the source positions of window i of the run
WindowPositions(i) == SlicePositions(text, windows[i].s, windows[i].e)

\* C3: a text no longer than chunk_size comes back as exactly one chunk, and
\* that chunk is the text with its leading and trailing whitespace removed
C3_ShortTextIsOneTrimmedChunk ==
    (split_pc = "done" /\ Len(text) <= chunk_size)
        => split_result = <<Strip(text)>>

\* C4: for a text longer than chunk_size, every window after the first starts
\* chunk_overlap source characters before the end of the window before it, and
\* the two windows share exactly chunk_overlap source characters
C4_ConsecutiveChunksShareOverlap ==
    Len(text) > chunk_size =>
        \A i \in 1..(Len(windows) - 1) :
            /\ windows[i + 1].s = windows[i].e - chunk_overlap
            /\ Cardinality(WindowPositions(i) \cap WindowPositions(i + 1))
                  = chunk_overlap

-----------------------------------------------------------------------------
(* Properties of process_file and process_directory *)

RECURSIVE DocsOfSuccessful(_)
\* the chunks of the files of a run that were processed without an exception
DocsOfSuccessful(calls) ==
    IF calls = <<>> THEN <<>>
    ELSE (IF Head(calls).status = "ok" THEN Head(calls).docs ELSE <<>>)
         \o DocsOfSuccessful(Tail(calls))

\* C9: a file that fails does not abort process_directory: every file found is
\* attempted, the result is the chunks of the files that succeeded, in order,
\* a failing file contributes none, and process_directory does not raise
C9_FileFailureDoesNotAbortBatch ==
    /\ proc_pc # "raised"
    /\ (proc_pc = "done" /\ dir_exists) =>
          /\ Len(processed) = Len(supported_files)
          /\ \A i \in 1..Len(processed) : processed[i].path = supported_files[i]
          /\ documents = DocsOfSuccessful(processed)
          /\ \A i \in 1..Len(processed) :
                processed[i].status # "ok" =>
                    \A k \in 1..Len(documents) :
                        documents[k].metadata.source # PathName(processed[i].path)

\* a finished run in which a file failed and a later file gave chunks
C9_Witness ==
    /\ proc_pc = "done"
    /\ \E i, j \in 1..Len(processed) :
          /\ i < j
          /\ processed[i].status # "ok"
          /\ processed[j].status = "ok"
          /\ \E k \in 1..Len(documents) :
                documents[k].metadata.source = PathName(processed[j].path)

\* the extensions process_file accepts
C10_Formats ==
    { <<".", "t", "x", "t">>, <<".", "m", "d">>, <<".", "p", "d", "f">>,
      <<".", "d", "o", "c", "x">>, <<".", "h", "t", "m", "l">>,
      <<".", "h", "t", "m">> }

\* C10: process_file raises FileNotFoundError for a path that does not exist,
\* whatever its extension, and ValueError for an existing path whose lower-cased
\* extension is not a supported one; both produce no chunk and call no extractor
C10_NotFoundThenUnsupported ==
    pf_last.status # "none" =>
        /\ ~pf_last.existed =>
              /\ pf_last.status = "FileNotFoundError"
              /\ pf_last.docs = <<>>
              /\ pf_last.extractor = "none"
        /\ (pf_last.existed /\ Lower(pf_last.path.suffix) \notin C10_Formats) =>
              /\ pf_last.status = "ValueError"
              /\ pf_last.docs = <<>>
              /\ pf_last.extractor = "none"
        /\ (pf_last.existed /\ Lower(pf_last.path.suffix) \in C10_Formats) =>
              /\ pf_last.status \notin {"FileNotFoundError", "ValueError"}
              /\ pf_last.extractor # "none"

\* process_file was called on a missing path with an unsupported extension
C10_Witness ==
    /\ pf_last.status = "FileNotFoundError"
    /\ ~pf_last.existed
    /\ Lower(pf_last.path.suffix) \notin C10_Formats

-----------------------------------------------------------------------------
(* Properties of the vector store and the retriever *)

One == Rat(1, 1)

\* the raw similarity to the query of the last call of the entry stored under id
RawSimilarity(id) == Similarity(Distance(collection[id].embedding, last.qvec))

C2_ContextWithinMaxChars ==
    last.op = "context" => Len(last.context) <= last.max_chars

\* C5: an add that returns True has replaced, for every id of the batch that
\* the collection already held, the stored vector, content and metadata by the
\* new ones, and an add of ids already held leaves count() unchanged
C5_ReAddReplaces ==
    (last.op = "add" /\ last.outcome = "True") =>
        /\ \A i \in 1..Len(last.batch) :
              last.batch[i].doc_id \in Ids(last.pre) =>
                  /\ collection[last.batch[i].doc_id].document = last.batch[i].content
                  /\ collection[last.batch[i].doc_id].metadata = last.batch[i].metadata
                  /\ collection[last.batch[i].doc_id].embedding = last.embeddings[i]
        /\ (\A i \in 1..Len(last.batch) : last.batch[i].doc_id \in Ids(last.pre))
              => Count(collection) = Count(last.pre)

\* a search that ran (top_k >= 1, threshold at most 1, no storage error) with a
\* query vector that some stored entry has
C6_SearchForStoredVector ==
    /\ last.op = "search"
    /\ last.outcome = "returned"
    /\ ~last.failed
    /\ last.top_k >= 1
    /\ RLeq(last.threshold, One)
    /\ \E id \in Ids(collection) : collection[id].embedding = last.qvec

\* C6, as claimed: every stored entry whose text is the query and whose vector
\* is the query vector is the first result of the search, with similarity 1.0
\* (distance 0)
C6_EveryMatchComesFirst ==
    C6_SearchForStoredVector =>
        \A id \in Ids(collection) :
            (collection[id].embedding = last.qvec
                /\ collection[id].document = last.query) =>
                /\ Len(last.result) >= 1
                /\ last.result[1].similarity = One
                /\ last.result[1].content = collection[id].document
                /\ last.result[1].metadata = collection[id].metadata

\* C6, amended: the first result of such a search is a stored entry whose vector
\* is the query vector, with similarity 1.0 (distance 0) and rank 1
C6_SomeMatchComesFirst ==
    C6_SearchForStoredVector =>
        /\ Len(last.result) >= 1
        /\ last.result[1].similarity = One
        /\ last.result[1].rank = 1
        /\ \E id \in Ids(collection) :
              /\ collection[id].embedding = last.qvec
              /\ Distance(collection[id].embedding, last.qvec) = 0
              /\ last.result[1].content = collection[id].document
              /\ last.result[1].metadata = collection[id].metadata

\* such a search with the text of a stored entry, while another entry holds
\* the same vector under other metadata
C6_Witness ==
    /\ C6_SearchForStoredVector
    /\ \E id1, id2 \in Ids(collection) :
          /\ collection[id1].document = last.query
          /\ collection[id1].embedding = last.qvec
          /\ collection[id2].embedding = last.qvec
          /\ collection[id1].metadata # collection[id2].metadata
          /\ last.result[1].metadata = collection[id1].metadata

\* C7: the list _rerank_documents returns holds the candidates it was given,
\* each with its new score, in descending order of new score, candidates of
\* equal new score in the order they were given: the one list this fixes
C7_RerankSortedAndStable ==
    (last.op = "retrieve" /\ last.reranked) =>
        /\ Len(last.ranked) = Len(last.found)
        /\ {last.order[i] : i \in 1..Len(last.order)} = 1..Len(last.found)
        /\ \A i \in 1..Len(last.ranked) :
              /\ last.ranked[i].content = last.found[last.order[i]].content
              /\ last.ranked[i].metadata = last.found[last.order[i]].metadata
              /\ last.ranked[i].similarity
                    = NewScore(last.query, last.found[last.order[i]])
        /\ \A i, j \in 1..Len(last.ranked) :
              i < j =>
                  /\ RLeq(last.ranked[j].similarity, last.ranked[i].similarity)
                  /\ (last.ranked[j].similarity = last.ranked[i].similarity
                         => last.order[i] < last.order[j])

\* re-ranking ran on candidates two of which, of different metadata, got the
\* same new score, and moved a candidate
C7_Witness ==
    /\ last.op = "retrieve"
    /\ last.reranked
    /\ \E i, j \in 1..Len(last.ranked) :
          /\ i < j
          /\ last.ranked[i].similarity = last.ranked[j].similarity
          /\ last.ranked[i].metadata # last.ranked[j].metadata
    /\ \E i \in 1..Len(last.order) : last.order[i] # i

\* C8: the rank fields of the list retrieve returns are 1, 2, ..., N in order
C8_RanksAreOneToN ==
    last.op = "retrieve" =>
        \A i \in 1..Len(last.result) : last.result[i].rank = i

\* retrieve returned a list that re-ranking reordered, after the threshold had
\* dropped a fetched hit
C8_Witness ==
    /\ last.op = "retrieve"
    /\ last.reranked
    /\ Len(last.result) >= 2
    /\ \E i \in 1..Len(last.order) : last.order[i] # i
    /\ Len(last.found) < Min(2 * last.top_k, Count(collection))

-----------------------------------------------------------------------------
(* Error handling of the store and the retriever *)

\* C11: an add whose vector length disagrees with the vectors the collection
\* holds, and a retrieve called with an empty query or a top_k below 1, end in
\* an error the caller sees (an exception, or False for add), never in a
\* returned result list
C11_InvalidCallsReachCallerAsErrors ==
    /\ (last.op = "retrieve" /\ (last.query = <<>> \/ last.top_k < 1))
          => last.outcome = "raised"
    /\ (last.op = "add"
           /\ \E i \in 1..Len(last.embeddings) : \E id \in Ids(last.pre) :
                 Len(last.embeddings[i]) # Len(last.pre[id].embedding))
          => last.outcome \in {"False", "raised"}

\* C12: a search in which a storage step failed, the initialize() of a store
\* not yet initialized included, returns the empty list and does not raise
C12_FailedSearchReturnsEmpty ==
    (last.op = "search" /\ last.failed) =>
        /\ last.outcome = "returned"
        /\ last.result = <<>>

\* C13: no entry of the collection has the all-zero fallback vector
C13_NoZeroVectorStored ==
    \A id \in Ids(collection) : collection[id].embedding # ZeroVector

\* C14: a call on a store that is not initialized (a new VectorStore, or one
\* after cleanup()) finds the entries the collection held: a call that only
\* reads leaves them as they were and counts them all, a write starts from them
C14_ReopeningKeepsEntries ==
    [][ (last.op = "none" /\ ~initialized /\ last'.op # "none") =>
           /\ last'.op \notin {"add", "delete", "clear", "load"}
                 => collection' = collection
           /\ last'.op \in {"add", "delete", "clear", "load"}
                 => last'.pre = collection
           /\ (last'.op \in {"add", "delete", "clear", "load"}
                  /\ last'.outcome = "raised")
                 => collection' = collection
           /\ (last'.op = "count" /\ ~last'.failed)
                 => last'.result = Count(collection) ]_vars

\* get_document_count() re-opened a collection that held entries and counted
\* them
C14_Witness ==
    /\ last.op = "count"
    /\ last.opened
    /\ ~last.failed
    /\ last.result >= 1
    /\ last.result = Count(collection)

-----------------------------------------------------------------------------
(* Concurrent callers *)

\* caller c is inside the collection call of add_documents, delete_documents
\* or clear_collection
Mutating(c) ==
    pc[c].at \in {"add", "delete", "delete_collection", "create_collection"}

\* C15: no two callers are inside the collection mutation of add_documents,
\* delete_documents or clear_collection at the same time
C15_WritesMutuallyExclusive ==
    \A c1, c2 \in Callers : (Mutating(c1) /\ Mutating(c2)) => c1 = c2

-----------------------------------------------------------------------------
(* Search results *)

\* the distance to the query of the stored entry a search result shows
ResultDistances(res) ==
    {Distance(collection[id].embedding, last.qvec) :
        id \in {id \in Ids(collection) :
                   /\ collection[id].document = res.content
                   /\ collection[id].metadata = res.metadata}}

\* C17: a search with top_k >= 1 that met no storage error returns
\* min(top_k, count()) entries, the nearest ones, nearest first, whatever the
\* similarity threshold
C17_SearchAppliesNoFilter ==
    (last.op = "search" /\ last.outcome = "returned" /\ ~last.failed
        /\ last.top_k >= 1) =>
        /\ Len(last.result) = Min(last.top_k, Count(collection))
        /\ \A i, j \in 1..Len(last.result) :
              i < j => RLeq(last.result[j].similarity, last.result[i].similarity)
        /\ \A i \in 1..Len(last.result) :
              last.result[i].similarity
                  \in {Similarity(d) : d \in ResultDistances(last.result[i])}

Zero == Rat(0, 1)

\* C18, as claimed: every result of search and of retrieve has a similarity
\* above 0 and at most 1
C18_SimilarityWithinUnitInterval ==
    last.op \in {"search", "retrieve"} =>
        \A i \in 1..Len(last.result) :
            /\ RLess(Zero, last.result[i].similarity)
            /\ RLeq(last.result[i].similarity, One)

\* C18, amended: a result of search, and of a retrieve that did not re-rank,
\* has a similarity above 0 and at most 1; a result of a retrieve that
\* re-ranked has one above 0 and at most 1.2 (modification times being >= 0)
C18_SimilarityWithinBoostedInterval ==
    last.op \in {"search", "retrieve"} =>
        \A i \in 1..Len(last.result) :
            /\ RLess(Zero, last.result[i].similarity)
            /\ RLeq(last.result[i].similarity,
                    IF last.op = "retrieve" /\ last.reranked
                    THEN Rat(6, 5) ELSE One)

\* retrieve re-ranked and returned a result whose similarity is above 1
C18_Witness ==
    /\ last.op = "retrieve"
    /\ last.reranked
    /\ \E i \in 1..Len(last.result) : RLess(One, last.result[i].similarity)

-----------------------------------------------------------------------------
(* Chunk sizes *)

\* the number of windows of chunk_size characters, chunk_size - chunk_overlap
\* apart, that cover a text of len characters (3 for 2400, 1000 and 200)
ExpectedChunks(len, size, overlap) ==
    CHOOSE n \in 1..len :
        /\ (n - 1) * (size - overlap) + size >= len
        /\ \A m \in 1..(n - 1) : (m - 1) * (size - overlap) + size < len

NoDelimiter(t) == \A k \in 1..Len(Delimiters) : RFind(t, Delimiters[k]) = -1

NoWhitespace(t) == \A i \in 1..Len(t) : t[i] \notin Whitespace

-----------------------------------------------------------------------------
(* Filtered retrieval *)

\* whether the metadata of doc matches the filter of the last call
C20_Matches(doc) ==
    IF last.op = "by_source"
    THEN \E i \in 0..Len(doc.metadata.source) :
            /\ i + Len(last.filter) <= Len(doc.metadata.source)
            /\ \A k \in 1..Len(last.filter) :
                  LowerChar(doc.metadata.source[i + k]) = LowerChar(last.filter[k])
    ELSE /\ Len(TypeChars(doc.metadata.type)) = Len(last.filter)
         /\ \A k \in 1..Len(last.filter) :
               LowerChar(TypeChars(doc.metadata.type)[k]) = LowerChar(last.filter[k])

\* C20: retrieve_by_source and retrieve_by_type return the results of the one
\* retrieve of the same query and parameters whose metadata matches, all of
\* them and in the same order, so at most top_k
C20_FilteredIsSubsequenceOfRetrieve ==
    last.op \in {"by_source", "by_type"} =>
        LET all  == last.all_docs
            keep == {i \in 1..Len(all) : C20_Matches(all[i])}
        IN  /\ last.found \in SearchOutcomes(collection, last.qvec, 2 * last.top_k,
                                             last.threshold, ~last.failed)
            /\ all = RetrieveFrom(last.query, last.top_k, last.found, rerank).result
            /\ Len(last.result) = Cardinality(keep)
            /\ \A j \in 1..Len(last.result) :
                  \E i \in keep :
                      /\ last.result[j] = all[i]
                      /\ Cardinality({k \in keep : k < i}) = j - 1
            /\ last.top_k >= 1 => Len(last.result) <= last.top_k

\* retrieve_by_source, given a pattern in upper case, dropped the first result
\* of retrieve and kept a later one
C20_Witness ==
    /\ last.op = "by_source"
    /\ \E k \in 1..Len(last.filter), u \in 1..Len(UpperCase) :
          last.filter[k] = UpperCase[u]
    /\ Len(last.all_docs) >= 2
    /\ Len(last.result) >= 1
    /\ last.result[1] # last.all_docs[1]

-----------------------------------------------------------------------------
(* Term boost and window boundaries *)

\* the boost of the claim: the share of the query terms that are
\* whitespace-separated tokens of the content
C21_TokenBoost(query, content) ==
    LET query_terms == QueryTerms(query)
        content_terms == SplitFrom(Lower(content), 1, <<>>)
    IN  IF query_terms = {} THEN Zero
        ELSE Rat(Cardinality(query_terms \cap content_terms),
                 Cardinality(query_terms))

\* C21: the score re-ranking gives a candidate is its similarity, plus a tenth
\* of the share of the distinct lower-cased query terms that are tokens of its
\* content (0 for a query without terms), plus its recency boost
C21_TermBoostCountsTokens ==
    (last.op = "retrieve" /\ last.reranked) =>
        \A i \in 1..Len(last.ranked) :
            last.ranked[i].similarity
                = RAdd(RAdd(last.found[last.order[i]].similarity,
                            RMul(C21_TokenBoost(last.query,
                                                last.found[last.order[i]].content),
                                 Rat(1, 10))),
                       RecencyBoost(last.found[last.order[i]].metadata))

\* the windows of the run that are not the last one
NonFinalWindows ==
    IF split_pc = "loop" THEN 1..Len(windows) ELSE 1..(Len(windows) - 1)

\* C22: a window that is not the last ends just after a boundary marker whose
\* last occurrence in the chunk_size characters from the window start lies at
\* an offset of at least half of chunk_size, and at the raw boundary when
\* there is no such marker
C22_CutAtMarkerFromHalfOn ==
    \A i \in NonFinalWindows :
        LET chunk_text == Slice(text, windows[i].s, windows[i].s + chunk_size)
            late == {k \in 1..Len(Delimiters) :
                        2 * RFind(chunk_text, Delimiters[k]) >= chunk_size}
        IN  IF late = {}
            THEN windows[i].e = windows[i].s + chunk_size
            ELSE \E k \in late :
                    windows[i].e = windows[i].s + RFind(chunk_text, Delimiters[k])
                                       + Len(Delimiters[k])

-----------------------------------------------------------------------------
(* Progress and coverage of the chunker *)

\* C26: the window start never is negative and grows with every window
C26_StartGrowsAndStaysPositive ==
    /\ start >= 0
    /\ \A i \in 1..Len(windows) :
          /\ windows[i].s >= 0
          /\ i > 1 => windows[i].s > windows[i - 1].s
    /\ (split_pc = "loop" /\ windows # <<>>)
          => start > windows[Len(windows)].s

\* the positions of the text that lie in a window cut so far
Covered == UNION {WindowPositions(i) : i \in 1..Len(windows)}

\* the furthest end of the windows cut so far
Reached ==
    IF windows = <<>> THEN 0
    ELSE Max(0, CHOOSE e \in {windows[i].e : i \in 1..Len(windows)} :
                   \A i \in 1..Len(windows) : windows[i].e <= e)

\* C27: the windows leave no gap (every position before the furthest window
\* end lies in a window), the last window reaches the end of the text, and
\* every character that is not whitespace lies in a window whose chunk is
\* emitted
C27_NoSourceTextLost ==
    /\ \A p \in 0..(Min(Reached, Len(text)) - 1) : p \in Covered
    /\ (split_pc = "done" /\ Len(text) > chunk_size) =>
          /\ Covered = 0..(Len(text) - 1)
          /\ \A p \in 0..(Len(text) - 1) :
                text[p + 1] \notin Whitespace =>
                    \E i \in 1..Len(windows) :
                        /\ p \in WindowPositions(i)
                        /\ \E j \in 1..Len(split_result) :
                              split_result[j] = Strip(chunks[i])

-----------------------------------------------------------------------------
(* Context assembly *)

\* the blocks of the documents, in rank order
C23_Blocks(docs) == [i \in 1..Len(docs) |-> DocText(docs[i], i)]

RECURSIVE C23_Chars(_, _)
\* the characters of the first n blocks
C23_Chars(blocks, n) ==
    IF n = 0 THEN 0 ELSE C23_Chars(blocks, n - 1) + Len(blocks[n])

\* the number of leading blocks that fit together in max_chars
C23_Fitting(blocks, max_chars) ==
    CHOOSE n \in 0..Len(blocks) :
        /\ C23_Chars(blocks, n) <= max_chars
        /\ (n < Len(blocks) => C23_Chars(blocks, n + 1) > max_chars)
        /\ \A k \in 0..n : C23_Chars(blocks, k) <= max_chars

\* C23: the context is the blocks of a prefix of the retrieved chunks, in rank
\* order, up to the first block that does not fit; that block is appended, cut
\* to the remaining budget and followed by "...", exactly when the remaining
\* budget is greater than 100 characters, and nothing of a later chunk follows
C23_PrefixThenOptionalFragment ==
    (last.op = "context") =>
        LET blocks == C23_Blocks(last.docs)
            n == C23_Fitting(blocks, last.max_chars)
            remaining == last.max_chars - C23_Chars(blocks, n)
            whole == [i \in 1..n |-> blocks[i]]
            fragment == [i \in 1..remaining |-> blocks[n + 1][i]]
                            \o <<".", ".", ".">>
            emitted == IF n < Len(blocks) /\ remaining > 100
                       THEN Append(whole, fragment) ELSE whole
        IN  last.context = Join(<<"\n", "-", "-", "-", "\n">>, emitted)

\* the first of two retrieved chunks did not fit and was cut to the budget,
\* and the second, which would have fitted, was left out
C23_Witness ==
    /\ last.op = "context"
    /\ Len(last.docs) = 2
    /\ LET blocks == C23_Blocks(last.docs)
       IN  /\ Len(blocks[1]) > last.max_chars
           /\ Len(blocks[2]) <= last.max_chars
           /\ last.max_chars > 100
           /\ last.context = [i \in 1..last.max_chars |-> blocks[1][i]]
                                 \o <<".", ".", ".">>

-----------------------------------------------------------------------------
(* The order of the steps of retrieve *)

\* the score retrieve sorts the candidate at place j of the search result by
C24_Score(j) ==
    IF rerank /\ Len(last.found) > 1
    THEN NewScore(last.query, last.found[j])
    ELSE last.found[j].similarity

\* the places in the search result of the chunks retrieve returned
C24_Kept == {last.order[i] : i \in 1..Len(last.result)}

\* C24: retrieve with top_k >= 1 searches the 2 * top_k nearest entries, keeps
\* those whose raw similarity reaches the threshold, re-ranks them exactly when
\* re-ranking is on and more than one is left, and cuts to top_k last: every
\* returned chunk scores at least as high as every candidate that was cut, and
\* no candidate below the threshold is among the candidates at all
C24_FetchFilterRerankTruncate ==
    (last.op = "retrieve" /\ last.top_k >= 1) =>
        /\ last.failed => last.found = <<>>
        /\ ~last.failed =>
              last.found \in SearchOutcomes(collection, last.qvec,
                                            2 * last.top_k, last.threshold, TRUE)
        /\ \A j \in 1..Len(last.found) :
              RLeq(last.threshold, last.found[j].similarity)
        /\ last.reranked <=> (rerank /\ Len(last.found) > 1)
        /\ Len(last.result) = Min(last.top_k, Len(last.found))
        /\ Cardinality(C24_Kept) = Len(last.result)
        /\ \A i \in 1..Len(last.result) :
              /\ last.order[i] \in 1..Len(last.found)
              /\ last.result[i].content = last.found[last.order[i]].content
              /\ last.result[i].metadata = last.found[last.order[i]].metadata
              /\ last.result[i].similarity = C24_Score(last.order[i])
              /\ RLeq(last.threshold, last.found[last.order[i]].similarity)
              /\ \A j \in (1..Len(last.found)) \ C24_Kept :
                    RLeq(C24_Score(j), last.result[i].similarity)

\* re-ranking moved a candidate from beyond the top_k nearest into the result
\* and a nearer candidate was cut
C24_Witness ==
    /\ last.op = "retrieve"
    /\ last.top_k >= 1
    /\ last.reranked
    /\ Len(last.found) > last.top_k
    /\ Len(last.result) = last.top_k
    /\ \E i \in 1..Len(last.result) : last.order[i] > last.top_k
    /\ \E j \in 1..last.top_k : j \notin C24_Kept

-----------------------------------------------------------------------------
(* The Retriever and the stored entries *)

\* the calls of the DocumentRetriever
C25_RetrieverOps == {"retrieve", "by_source", "by_type", "context", "stats"}

\* C25: no call of the Retriever (retrieve, retrieve_by_source,
\* retrieve_by_type, get_document_context, get_retrieval_stats) changes the
\* entries of the index (ids, vectors, content, metadata) or their number,
\* whether it returns results, fails, or re-ranks what it found
C25_RetrieverLeavesIndexUnchanged ==
    [][ (last.op = "none" /\ last'.op \in C25_RetrieverOps) =>
           /\ collection' = collection
           /\ Count(collection') = Count(collection) ]_vars

\* retrieve re-ranked what it found in an index of two or more entries and
\* returned a chunk with a score that is not its raw similarity
C25_Witness ==
    /\ last.op = "retrieve"
    /\ last.reranked
    /\ Count(collection) >= 2
    /\ \E i \in 1..Len(last.result) :
          last.result[i].similarity # last.found[last.order[i]].similarity

-----------------------------------------------------------------------------
(* Loading documents *)

\* C28: when load_documents returns a count n > 0, add_documents has stored the
\* n chunks: it returned True and every chunk counted is in the index
C28_LoadReportsOnlyStored ==
    (last.op = "load" /\ last.outcome = "returned" /\ last.result > 0) =>
        /\ last.added = "True"
        /\ \A i \in 1..Len(last.batch) :
              last.batch[i].doc_id \in Ids(collection)

-----------------------------------------------------------------------------
(* Errors inside retrieve *)

-----------------------------------------------------------------------------
(* retrieve with a larger top_k *)

\* what search of 2 * top_k can return for the query and threshold of the last
\* call on the index as it is, ties among equal distances broken as they were
\* in the last call
C30_FoundWith(top_k) ==
    {found \in SearchOutcomes(collection, last.qvec, 2 * top_k,
                              last.threshold, TRUE) :
        /\ Len(found) >= Len(last.found)
        /\ SubSeq(found, 1, Len(last.found)) = last.found}

\* the chunks of a result, without their scores and ranks
C30_Chunks(docs) ==
    [i \in 1..Len(docs) |-> [content |-> docs[i].content,
                             metadata |-> docs[i].metadata]]

\* C30: on an unchanged index, with the same query and threshold, the result of
\* retrieve with top_k = k is the first k chunks, in the same order, of the
\* result of retrieve with any larger top_k
C30_PrefixMonotoneInTopK ==
    (last.op = "retrieve" /\ ~last.failed /\ last.top_k >= 1) =>
        \A larger \in {k \in TopKs : k > last.top_k} :
            \A found \in C30_FoundWith(larger) :
                C30_Chunks(last.result)
                    = C30_Chunks(LimitTo(RetrieveFrom(last.query, larger, found,
                                                      rerank).result,
                                         last.top_k))

=============================================================================
